---- MODULE Spec2Model ----
(***************************************************************************)
(* Model of the command-line binaries under .rust_alpha: each invocation   *)
(* resolves a Region, builds a client, sends its request(s) and renders or *)
(* persists the response.  One behaviour of Spec is one invocation of one  *)
(* binary; the inputs (flags, environment, file system, service replies)   *)
(* are drawn from small sets.                                              *)
(***************************************************************************)
EXTENDS Integers, Sequences, FiniteSets, TLC

VARIABLES
    bin,            \* which binary is running
    pc,             \* position of main
    default_region, \* Opt.default_region: Option<String>
    env_region,     \* Option: the value of AWS_DEFAULT_REGION
    region,         \* Option: the Region handed to Config::builder().region(..)
    filename,       \* Opt.filename (synthesize-speech), a sequence of characters
    fs,             \* file system: path -> [exists, data]
    fs0,            \* the file system when the process started (history)
    content,        \* Result of fs::read_to_string: <<>> before/Err, <<text>> Ok
    audio_stream,   \* chunks the response stream has still to deliver
    delivered,      \* chunks the response stream has delivered (history)
    blob,           \* the collected segments not yet written (AggregatedBytes)
    out_file,       \* Option: the path passed to File::create
    file,           \* handle state: "none", "open", "closed"
    closes,         \* how many times the handle has been released
    written,        \* bytes accepted by write_buf so far
    requests,       \* the requests sent, in order
    next_token,     \* the scan response carried a LastEvaluatedKey
    stdout,         \* lines printed with println!
    stderr,         \* lines printed by a panic or by main returning Err
    failed_stage,   \* "none" or the stage that failed
    exit_code       \* process exit status, -1 while running

vars == <<bin, pc, default_region, env_region, region, filename, fs, fs0,
          content, audio_stream, delivered, blob, out_file, file, closes,
          written, requests, next_token, stdout, stderr, failed_stage,
          exit_code>>

----------------------------------------------------------------------------
(* Bounds of the model *)

MaxSegs == 3        \* dot-separated segments in a file name
MaxBody == 3        \* bytes in a synthesized audio body
MaxItems == 2       \* items in a scan page

----------------------------------------------------------------------------
(* Option<T>: None is <<>>, Some(x) is <<x>> *)

None == <<>>
Some(x) == <<x>>
IsSome(o) == o # <<>>

\* Region::new(name)
RegionNew(name) == [name |-> name]

\* Option::map(|region| Region::new(region.clone()))
OptMap(o) == IF IsSome(o) THEN Some(RegionNew(o[1])) ELSE None

\* default_provider().region(): the Region named by AWS_DEFAULT_REGION, if set
DefaultProviderRegion(env) == IF IsSome(env) THEN Some(RegionNew(env[1])) ELSE None

\* Option::or_else
OrElse(o, alt) == IF IsSome(o) THEN o ELSE alt

\* Option::unwrap_or_else
UnwrapOrElse(o, dflt) == IF IsSome(o) THEN o[1] ELSE dflt

----------------------------------------------------------------------------
(* Inputs *)

Binaries == {"helloworld", "list-items", "describe-stream", "put-lexicon",
             "synthesize-speech", "delete-bucket", "delete-object"}

HasRegionFlag(b) == b # "helloworld"

FlagValues == {None, Some("eu-west-1")}
EnvValues == {None, Some("ap-south-1")}

Segments == {<<>>, <<"a">>, <<"d", "/", "a">>, <<"m", "p", "3">>}

RECURSIVE JoinDots(_)
JoinDots(ss) ==
    IF Len(ss) = 0 THEN <<>>
    ELSE IF Len(ss) = 1 THEN ss[1]
    ELSE ss[1] \o <<".">> \o JoinDots(Tail(ss))

Filenames ==
    {JoinDots(ss) : ss \in UNION {[1..n -> Segments] : n \in 1..MaxSegs}}
        \ {<<>>}

RECURSIVE Flatten(_)
Flatten(chunks) ==
    IF chunks = <<>> THEN <<>> ELSE Head(chunks) \o Flatten(Tail(chunks))

\* Audio bodies: every way of cutting the bytes <<1, .., n>> into non-empty
\* chunks, n <= MaxBody.  All bytes differ, so a dropped, repeated or moved
\* byte changes the concatenation.
Bytes(lo, hi) == [i \in 1..(hi - lo + 1) |-> lo + i - 1]

RECURSIVE Chunkings(_, _)
Chunkings(lo, hi) ==
    IF lo > hi THEN {<<>>}
    ELSE UNION {{<<Bytes(lo, k)>> \o rest : rest \in Chunkings(k + 1, hi)} :
                   k \in lo..hi}

Bodies == UNION {Chunkings(1, n) : n \in 0..MaxBody}

Text == <<9>>            \* what the input text file holds
OldAudio == <<0, 0>>     \* what a file already at the destination holds

Absent == [exists |-> FALSE, data |-> <<>>]
FileOf(d) == [exists |-> TRUE, data |-> d]

----------------------------------------------------------------------------
(* Pure functions of main *)

\* Resolve gone wrong: the environment is consulted before the flag
ResolveEnvFirst(flag, env) ==
    UnwrapOrElse(OrElse(DefaultProviderRegion(env), OptMap(flag)),
                 RegionNew("us-west-2"))

\* The region chain: flag, then default_provider().region(), then "us-west-2"
Resolve(flag, env) ==
    UnwrapOrElse(OrElse(OptMap(flag), DefaultProviderRegion(env)),
                 RegionNew("us-west-2"))

FirstIdx(s, c) ==
    IF \E i \in 1..Len(s) : s[i] = c
    THEN CHOOSE i \in 1..Len(s) : s[i] = c /\ \A j \in 1..(i - 1) : s[j] # c
    ELSE 0

\* str::split(c).collect::<Vec<&str>>()
RECURSIVE Split(_, _)
Split(s, c) ==
    IF FirstIdx(s, c) = 0 THEN <<s>>
    ELSE <<SubSeq(s, 1, FirstIdx(s, c) - 1)>>
             \o Split(SubSeq(s, FirstIdx(s, c) + 1, Len(s)), c)

\* OutFile gone wrong: the destination is the input path itself
OutFileSameName(name) == name

\* format!("{}{}", String::from(parts[0]), ".mp3")
OutFile(name) == Split(name, ".")[1] \o <<".", "m", "p", "3">>

\* Buf::has_remaining on the collected segments
HasRemaining(b) == Len(Flatten(b)) > 0

\* Advance gone wrong: the whole first segment is consumed whatever was written
AdvanceSegment(b, n) == Tail(b)

\* Buf::advance(n) after write_buf wrote n bytes of the first segment
Advance(b, n) ==
    IF n = Len(Head(b)) THEN Tail(b)
    ELSE <<SubSeq(Head(b), n + 1, Len(Head(b)))>> \o Tail(b)

\* Option::unwrap_or_default on the scan page's items
UnwrapOrDefault(o) == IF IsSome(o) THEN o[1] ELSE <<>>

ItemOptions ==
    {None} \cup {Some(s) : s \in UNION {[1..n -> {"item"}] : n \in 0..MaxItems}}

\* The attributes of a stream description, in the order main unwraps them
DescFields == <<"stream_name", "stream_status", "shards",
                "retention_period_hours", "encryption_type">>
DescLines == <<"  Name:", "  Status:", "  Open shards:",
               "  Retention (hours):", "  Encryption:">>
DescAttributes == {"stream_description"} \cup {DescFields[i] : i \in DOMAIN DescFields}

\* How many attribute lines are printed before an unwrap meets None
Unwrapped(present) ==
    CHOOSE k \in 0..Len(DescFields) :
        /\ \A i \in 1..k : DescFields[i] \in present
        /\ (k = Len(DescFields) \/ DescFields[k + 1] \notin present)

\* The lines println! has written when rendering stops
DescribePrinted(present) ==
    IF "stream_description" \notin present THEN <<>>
    ELSE <<"Stream description:">> \o SubSeq(DescLines, 1, Unwrapped(present))

DescribeComplete(present) == present = DescAttributes

----------------------------------------------------------------------------
(* Initial state: the process has parsed its arguments (Opt::from_args) *)

InputPaths(name) == {name, OutFile(name)}

InitialFs(name) ==
    {f \in [InputPaths(name) -> {Absent, FileOf(Text), FileOf(OldAudio)}] :
        /\ f[name] \in {Absent, FileOf(Text)}
        /\ OutFile(name) # name => f[OutFile(name)] \in {Absent, FileOf(OldAudio)}}

Init ==
    /\ bin \in Binaries
    /\ pc = "start"
    /\ default_region \in (IF HasRegionFlag(bin) THEN FlagValues ELSE {None})
    /\ env_region \in EnvValues
    /\ region = None
    /\ filename \in (IF bin = "synthesize-speech" THEN Filenames ELSE {<<>>})
    /\ fs \in (IF bin = "synthesize-speech" THEN InitialFs(filename) ELSE {<<>>})
    /\ fs0 = fs
    /\ content = None
    /\ audio_stream = <<>>
    /\ delivered = <<>>
    /\ blob = <<>>
    /\ out_file = None
    /\ file = "none"
    /\ closes = 0
    /\ written = 0
    /\ requests = <<>>
    /\ next_token = FALSE
    /\ stdout = <<>>
    /\ stderr = <<>>
    /\ failed_stage = "none"
    /\ exit_code = -1

inputs == <<bin, default_region, env_region, filename, fs0>>
files == <<fs, out_file, file, closes, written>>
stream == <<content, audio_stream, delivered, blob>>

output == <<stdout, stderr>>

----------------------------------------------------------------------------
(* Ways main ends *)

\* Leaving main, by return or by process::exit
Exit(code) == pc' = "done" /\ exit_code' = code

\* DropFile gone wrong: the handle is never released
LeakFile == UNCHANGED <<file, closes>>

\* The destination handle goes out of scope
DropFile ==
    IF file = "open"
    THEN file' = "closed" /\ closes' = closes + 1
    ELSE UNCHANGED <<file, closes>>

\* unwrap()/expect() on None or Err: the message goes to stderr, the stack
\* unwinds (dropping the handle) and the process ends with status 101
Panic(stage, msg) ==
    /\ stderr' = Append(stderr, msg)
    /\ failed_stage' = stage
    /\ DropFile
    /\ Exit(101)

\* The Err(e) arm of the match on send().await
PrintErrorAndExit(prefix) ==
    /\ stdout' = stdout \o <<prefix, "error text">>
    /\ failed_stage' = "request"
    /\ Exit(1)

\* main returned Err(e) through `?`: the runtime prints it and exits with 1
ReturnErr ==
    /\ stderr' = Append(stderr, "Error: error text")
    /\ failed_stage' = "request"
    /\ Exit(1)

----------------------------------------------------------------------------
(* Configuration *)

Configure ==
    /\ pc = "start"
    /\ HasRegionFlag(bin)
    /\ region' = Some(Resolve(default_region, env_region))
    /\ pc' = IF bin = "synthesize-speech" THEN "read" ELSE "send"
    /\ UNCHANGED <<inputs, files, stream, output, requests, next_token,
                   failed_stage, exit_code>>

\* helloworld: Client::from_env(), no flag and no fallback in main
ConfigureFromEnv ==
    /\ pc = "start"
    /\ bin = "helloworld"
    /\ region' = DefaultProviderRegion(env_region)
    /\ pc' = "send"
    /\ UNCHANGED <<inputs, files, stream, output, requests, next_token,
                   failed_stage, exit_code>>

----------------------------------------------------------------------------
(* helloworld *)

HelloListTablesOk ==
    /\ pc = "send" /\ bin = "helloworld"
    /\ requests' = Append(requests, "ListTables")
    /\ stdout' = Append(stdout, "Current DynamoDB tables:")
    /\ pc' = "create_table"
    /\ UNCHANGED <<inputs, region, files, stream, stderr, next_token,
                   failed_stage, exit_code>>

HelloListTablesErr ==
    /\ pc = "send" /\ bin = "helloworld"
    /\ requests' = Append(requests, "ListTables")
    /\ ReturnErr
    /\ UNCHANGED <<inputs, region, files, stream, stdout, next_token>>

HelloCreateTableOk ==
    /\ pc = "create_table"
    /\ requests' = Append(requests, "CreateTable")
    /\ \E table_description \in BOOLEAN, table_arn \in BOOLEAN :
          IF table_description /\ table_arn
          THEN /\ stdout' = Append(stdout, "New table:")
               /\ Exit(0)
               /\ UNCHANGED <<stderr, failed_stage, file, closes>>
          ELSE /\ Panic("render", "called Option::unwrap() on a None value")
               /\ UNCHANGED stdout
    /\ UNCHANGED <<inputs, region, fs, out_file, written, stream, next_token>>

HelloCreateTableErr ==
    /\ pc = "create_table"
    /\ requests' = Append(requests, "CreateTable")
    /\ ReturnErr
    /\ UNCHANGED <<inputs, region, files, stream, stdout, next_token>>

----------------------------------------------------------------------------
(* list-items *)

\* ListItemsOk gone wrong: a page with a LastEvaluatedKey is followed by a
\* second Scan
ListItemsFollowKey ==
    /\ pc = "send" /\ bin = "list-items"
    /\ \E items \in ItemOptions, last_evaluated_key \in BOOLEAN :
          /\ requests' = IF last_evaluated_key
                         THEN requests \o <<"Scan", "Scan">>
                         ELSE Append(requests, "Scan")
          /\ stdout' = stdout \o <<"Items in table:">> \o UnwrapOrDefault(items)
          /\ next_token' = last_evaluated_key
    /\ Exit(0)
    /\ UNCHANGED <<inputs, region, files, stream, stderr, failed_stage>>


ListItemsOk ==
    /\ pc = "send" /\ bin = "list-items"
    /\ requests' = Append(requests, "Scan")
    /\ \E items \in ItemOptions, last_evaluated_key \in BOOLEAN :
          /\ stdout' = stdout \o <<"Items in table:">> \o UnwrapOrDefault(items)
          /\ next_token' = last_evaluated_key
    /\ Exit(0)
    /\ UNCHANGED <<inputs, region, files, stream, stderr, failed_stage>>

ListItemsErr ==
    /\ pc = "send" /\ bin = "list-items"
    /\ requests' = Append(requests, "Scan")
    /\ PrintErrorAndExit("Got an error listing items:")
    /\ UNCHANGED <<inputs, region, files, stream, stderr, next_token>>

----------------------------------------------------------------------------
(* describe-stream *)

DescribeStreamOk ==
    /\ pc = "send" /\ bin = "describe-stream"
    /\ requests' = Append(requests, "DescribeStream")
    /\ \E present \in SUBSET DescAttributes :
          /\ stdout' = stdout \o DescribePrinted(present)
          /\ IF DescribeComplete(present)
             THEN Exit(0) /\ UNCHANGED <<stderr, failed_stage, file, closes>>
             ELSE Panic("render", "called Option::unwrap() on a None value")
    /\ UNCHANGED <<inputs, region, fs, out_file, written, stream, next_token>>

DescribeStreamErr ==
    /\ pc = "send" /\ bin = "describe-stream"
    /\ requests' = Append(requests, "DescribeStream")
    /\ PrintErrorAndExit("Got an error describing the stream:")
    /\ UNCHANGED <<inputs, region, files, stream, stderr, next_token>>

----------------------------------------------------------------------------
(* put-lexicon, delete-bucket, delete-object *)

PutLexiconOk ==
    /\ pc = "send" /\ bin = "put-lexicon"
    /\ requests' = Append(requests, "PutLexicon")
    /\ stdout' = Append(stdout, "Added lexicon.")
    /\ Exit(0)
    /\ UNCHANGED <<inputs, region, files, stream, stderr, next_token, failed_stage>>

PutLexiconErr ==
    /\ pc = "send" /\ bin = "put-lexicon"
    /\ requests' = Append(requests, "PutLexicon")
    /\ PrintErrorAndExit("Got an error adding lexicon:")
    /\ UNCHANGED <<inputs, region, files, stream, stderr, next_token>>

DeleteBucketOk ==
    /\ pc = "send" /\ bin = "delete-bucket"
    /\ requests' = Append(requests, "DeleteBucket")
    /\ stdout' = Append(stdout, "Deleted bucket")
    /\ Exit(0)
    /\ UNCHANGED <<inputs, region, files, stream, stderr, next_token, failed_stage>>

DeleteBucketErr ==
    /\ pc = "send" /\ bin = "delete-bucket"
    /\ requests' = Append(requests, "DeleteBucket")
    /\ PrintErrorAndExit("Got an error deleting bucket:")
    /\ UNCHANGED <<inputs, region, files, stream, stderr, next_token>>

DeleteObjectOk ==
    /\ pc = "send" /\ bin = "delete-object"
    /\ requests' = Append(requests, "DeleteObject")
    /\ stdout' = Append(stdout, "Deleted object")
    /\ Exit(0)
    /\ UNCHANGED <<inputs, region, files, stream, stderr, next_token, failed_stage>>

DeleteObjectErr ==
    /\ pc = "send" /\ bin = "delete-object"
    /\ requests' = Append(requests, "DeleteObject")
    /\ PrintErrorAndExit("Got an error deleting object from bucket:")
    /\ UNCHANGED <<inputs, region, files, stream, stderr, next_token>>

----------------------------------------------------------------------------
(* synthesize-speech *)

\* let content = fs::read_to_string(&filename);
ReadInput ==
    /\ pc = "read"
    /\ content' = IF fs[filename].exists THEN Some(fs[filename].data) ELSE None
    /\ pc' = "send"
    /\ UNCHANGED <<inputs, region, files, audio_stream, delivered, blob, output,
                   requests, next_token, failed_stage, exit_code>>

\* ReadInputPanic gone wrong: an unreadable input is sent as empty text
ReadInputIgnored ==
    /\ pc = "send" /\ bin = "synthesize-speech"
    /\ content = None
    /\ requests' = Append(requests, "SynthesizeSpeech")
    /\ audio_stream' \in Bodies
    /\ pc' = "collect"
    /\ UNCHANGED <<inputs, region, files, content, delivered, blob, output,
                   next_token, failed_stage, exit_code>>

\* .text(content.unwrap()) on Err, while the request is being built
ReadInputPanic ==
    /\ pc = "send" /\ bin = "synthesize-speech"
    /\ content = None
    /\ Panic("read_input", "called Result::unwrap() on an Err value")
    /\ UNCHANGED <<inputs, region, fs, out_file, written, stream, stdout,
                   requests, next_token>>

SynthesizeSpeechOk ==
    /\ pc = "send" /\ bin = "synthesize-speech"
    /\ IsSome(content)
    /\ requests' = Append(requests, "SynthesizeSpeech")
    /\ audio_stream' \in Bodies
    /\ pc' = "collect"
    /\ UNCHANGED <<inputs, region, files, content, delivered, blob, output,
                   next_token, failed_stage, exit_code>>

SynthesizeSpeechErr ==
    /\ pc = "send" /\ bin = "synthesize-speech"
    /\ IsSome(content)
    /\ requests' = Append(requests, "SynthesizeSpeech")
    /\ PrintErrorAndExit("Got an error synthesizing speech:")
    /\ UNCHANGED <<inputs, region, files, stream, stderr, next_token>>

\* CollectChunk gone wrong: the destination is created as soon as the first
\* chunk has arrived
CollectFirstChunk ==
    /\ pc = "collect"
    /\ audio_stream # <<>>
    /\ blob' = Append(blob, Head(audio_stream))
    /\ delivered' = Append(delivered, Head(audio_stream))
    /\ audio_stream' = Tail(audio_stream)
    /\ pc' = "create"
    /\ UNCHANGED <<inputs, region, files, content, output, requests,
                   next_token, failed_stage, exit_code>>

\* resp.audio_stream.collect().await: the next chunk arrives and is kept
CollectChunk ==
    /\ pc = "collect"
    /\ audio_stream # <<>>
    /\ blob' = Append(blob, Head(audio_stream))
    /\ delivered' = Append(delivered, Head(audio_stream))
    /\ audio_stream' = Tail(audio_stream)
    /\ UNCHANGED <<inputs, pc, region, files, content, output, requests,
                   next_token, failed_stage, exit_code>>

\* collect() returns Ok once the stream has ended
CollectEnd ==
    /\ pc = "collect"
    /\ audio_stream = <<>>
    /\ pc' = "create"
    /\ UNCHANGED <<inputs, region, files, stream, output, requests, next_token,
                   failed_stage, exit_code>>

\* collect() returns Err: .expect("Failed to read data.")
CollectErr ==
    /\ pc = "collect"
    /\ Panic("read_stream", "Failed to read data.")
    /\ UNCHANGED <<inputs, region, fs, out_file, written, stream, stdout,
                   requests, next_token>>

\* File::create(out_file) succeeds: the file exists and is empty
CreateOk ==
    /\ pc = "create"
    /\ out_file' = Some(OutFile(filename))
    /\ fs' = [fs EXCEPT ![OutFile(filename)] = FileOf(<<>>)]
    /\ file' = "open"
    /\ pc' = "write"
    /\ UNCHANGED <<inputs, region, closes, written, stream, output, requests,
                   next_token, failed_stage, exit_code>>

\* File::create(out_file) fails: .expect("Failed to create file.")
CreateErr ==
    /\ pc = "create"
    /\ out_file' = Some(OutFile(filename))
    /\ Panic("create", "Failed to create file.")
    /\ UNCHANGED <<inputs, region, fs, written, stream, stdout, requests,
                   next_token>>

\* file.write_buf(&mut blob) accepts n bytes of the first segment
WriteBuf ==
    /\ pc = "write"
    /\ HasRemaining(blob)
    /\ \E n \in 1..Len(Head(blob)) :
          /\ fs' = [fs EXCEPT ![out_file[1]].data = @ \o SubSeq(Head(blob), 1, n)]
          /\ blob' = Advance(blob, n)
          /\ written' = written + n
    /\ UNCHANGED <<inputs, pc, region, out_file, file, closes, content,
                   audio_stream, delivered, output, requests, next_token,
                   failed_stage, exit_code>>

\* file.write_buf(&mut blob) fails: .expect("Failed to write to file.")
WriteErr ==
    /\ pc = "write"
    /\ HasRemaining(blob)
    /\ Panic("write", "Failed to write to file.")
    /\ UNCHANGED <<inputs, region, fs, out_file, written, stream, stdout,
                   requests, next_token>>

\* blob.has_remaining() is false: main returns, the handle is dropped
WriteDone ==
    /\ pc = "write"
    /\ ~HasRemaining(blob)
    /\ DropFile
    /\ Exit(0)
    /\ UNCHANGED <<inputs, region, fs, out_file, written, stream, output,
                   requests, next_token, failed_stage>>

----------------------------------------------------------------------------

Next ==
    \/ Configure
    \/ ConfigureFromEnv
    \/ HelloListTablesOk
    \/ HelloListTablesErr
    \/ HelloCreateTableOk
    \/ HelloCreateTableErr
    \/ ListItemsOk
    \/ ListItemsErr
    \/ DescribeStreamOk
    \/ DescribeStreamErr
    \/ PutLexiconOk
    \/ PutLexiconErr
    \/ DeleteBucketOk
    \/ DeleteBucketErr
    \/ DeleteObjectOk
    \/ DeleteObjectErr
    \/ ReadInput
    \/ ReadInputPanic
    \/ SynthesizeSpeechOk
    \/ SynthesizeSpeechErr
    \/ CollectChunk
    \/ CollectEnd
    \/ CollectErr
    \/ CreateOk
    \/ CreateErr
    \/ WriteBuf
    \/ WriteErr
    \/ WriteDone

Spec == Init /\ [][Next]_vars

----------------------------------------------------------------------------
(* Vocabulary of the properties *)

Mp3 == <<".", "m", "p", "3">>

LastIdx(s, c) ==
    IF \E i \in 1..Len(s) : s[i] = c
    THEN CHOOSE i \in 1..Len(s) : s[i] = c /\ \A j \in (i + 1)..Len(s) : s[j] # c
    ELSE 0

\* The path's final component has an extension: a dot that is not the
\* component's first character (Path::extension)
HasExtension(p) ==
    /\ LastIdx(p, ".") > LastIdx(p, "/") + 1
    /\ SubSeq(p, LastIdx(p, "/") + 1, Len(p)) # <<".", ".">>

\* The path with its final extension replaced by ".mp3"
ReplaceExtension(p) == SubSeq(p, 1, LastIdx(p, ".") - 1) \o Mp3

\* The path is X.mp3 with no dot in X
IsStemMp3(p) ==
    /\ Len(p) >= Len(Mp3)
    /\ SubSeq(p, Len(p) - Len(Mp3) + 1, Len(p)) = Mp3
    /\ \A i \in 1..(Len(p) - Len(Mp3)) : p[i] # "."

Synth == bin = "synthesize-speech"
Ended == pc = "done"
Destination == fs[out_file[1]]
ClaimedStages == {"read_input", "request", "read_stream", "create", "write"}

----------------------------------------------------------------------------
(* Properties *)

\* C1: in every binary with a region flag, the region the client is built
\* with is the flag's value when the flag is given, otherwise the
\* environment's value when there is one, otherwise "us-west-2".
RegionPrecedence ==
    (HasRegionFlag(bin) /\ pc # "start") =>
        region = Some([name |-> IF IsSome(default_region) THEN default_region[1]
                                ELSE IF IsSome(env_region) THEN env_region[1]
                                ELSE "us-west-2"])

RegionPrecedenceWitness ==
    /\ HasRegionFlag(bin) /\ pc # "start"
    /\ IsSome(default_region) /\ IsSome(env_region)
    /\ region[1].name = default_region[1]
    /\ region[1].name # env_region[1]

\* C2: whatever stage fails, the process ends with exit code 1 and a
\* non-empty diagnostic, and it ends with 0 only when every stage succeeded.
FailureExitsWithOne ==
    Ended =>
        /\ failed_stage \in ClaimedStages =>
              exit_code = 1 /\ Len(stdout) + Len(stderr) > 0
        /\ exit_code = 0 => failed_stage = "none"

\* C3: when the stream ends and no write fails, the destination holds
\* exactly the concatenation of the delivered chunks, and the number of
\* bytes written is its length.
StreamRoundTrip ==
    (Synth /\ Ended /\ exit_code = 0) =>
        /\ Destination = FileOf(Flatten(delivered))
        /\ written = Len(Flatten(delivered))

StreamRoundTripWitness ==
    /\ Synth /\ Ended /\ exit_code = 0
    /\ Len(delivered) >= 2
    /\ fs0[out_file[1]] = FileOf(OldAudio)
    /\ Destination.data = Flatten(delivered)

\* C4: for an input path that has an extension, the destination is the
\* input path with only its final extension replaced by ".mp3".
DestinationReplacesFinalExtension ==
    (Synth /\ IsSome(out_file) /\ HasExtension(filename)) =>
        out_file[1] = ReplaceExtension(filename)

\* C5 as stated: for every input path the destination differs from the
\* input path and the input file keeps its contents.
InputUntouched ==
    Synth =>
        /\ file # "none" => out_file[1] # filename
        /\ fs[filename] = fs0[filename]

\* C5 as amended: the destination is the input path exactly for the paths
\* X.mp3 with no dot in X; for every other input path the input file keeps
\* its contents, on success and on every failure path.
InputUntouchedUnlessStemMp3 ==
    Synth =>
        /\ IsSome(out_file) => (out_file[1] = filename <=> IsStemMp3(filename))
        /\ ~IsStemMp3(filename) => fs[filename] = fs0[filename]

InputUntouchedWitness ==
    /\ Synth /\ Ended /\ exit_code = 0
    /\ ~IsStemMp3(filename)
    /\ fs0[filename] = FileOf(Text)
    /\ written > 0
    /\ fs[filename] = FileOf(Text)

\* C6 as stated: every invocation of every binary sends exactly one
\* request, and never a second one.
ExactlyOneRequest ==
    /\ Len(requests) <= 1
    /\ Ended => Len(requests) = 1

\* C6 as amended: every binary but helloworld sends at most one request,
\* and exactly one unless synthesize-speech could not read its input; a scan
\* page carrying a continuation key is not followed; helloworld sends
\* ListTables and, only after that succeeded, one CreateTable.
OneRequestExceptHelloworld ==
    /\ bin # "helloworld" =>
          /\ Len(requests) <= 1
          /\ Ended => (Len(requests) = 1 \/ failed_stage = "read_input")
    /\ bin = "helloworld" =>
          /\ requests \in {<<>>, <<"ListTables">>, <<"ListTables", "CreateTable">>}
          /\ Ended => Len(requests) >= 1
          /\ Len(requests) = 2 => stdout # <<>>

OneRequestWitness ==
    /\ bin = "list-items" /\ Ended
    /\ next_token
    /\ requests = <<"Scan">>

HandleReleasedOnce ==
    /\ closes <= 1
    /\ file = "open" => closes = 0
    /\ file = "closed" => closes = 1
    /\ Ended => file # "open"
    /\ failed_stage = "write" =>
          Destination = FileOf(SubSeq(Flatten(delivered), 1, written))

HandleReleasedWitness ==
    /\ Ended /\ failed_stage = "write"
    /\ written > 0
    /\ file = "closed" /\ closes = 1
    /\ Destination.data # <<>>

\* C9: rendering a successful scan or describe-stream response never fails,
\* whatever optional attribute is absent.
RenderingNeverFails ==
    bin \in {"list-items", "describe-stream"} => failed_stage # "render"

\* C10: synthesize-speech reads its input, then sends the request, then
\* collects the stream, then creates the destination, then writes; no
\* request is sent when the input cannot be read, and the file system is
\* as it was when reading the input, the request or the stream fails.
StepOrder ==
    Synth =>
        /\ requests # <<>> => IsSome(content)
        /\ delivered # <<>> => requests # <<>>
        /\ IsSome(out_file) => (audio_stream = <<>> /\ requests # <<>>)
        /\ written > 0 => file # "none"
        /\ failed_stage = "read_input" => requests = <<>>
        /\ failed_stage \in {"read_input", "request", "read_stream"} =>
              (fs = fs0 /\ file = "none" /\ out_file = None)

StepOrderWitness ==
    /\ Synth /\ failed_stage = "read_stream"
    /\ delivered # <<>>
    /\ fs0[OutFile(filename)] = FileOf(OldAudio)
    /\ fs[OutFile(filename)] = FileOf(OldAudio)

====
